---- MODULE Spec2Model ----
(***************************************************************************)
(* A model of FluidGrid (src/navier_stokes_rust/src/main.rs): the          *)
(* staggered grid, the velocity sampler get_velocity, and the four phases  *)
(* of run_step (advect, solve_pressure, project, set_boundaries).          *)
(*                                                                         *)
(* f64 values are modelled as fixed-point numbers: the integer n stands    *)
(* for the real n / One.  Sums and differences are exact; a product or a   *)
(* quotient is rounded to the nearest representable value, as an f64       *)
(* operation rounds its exact result (at a coarser precision).             *)
(* usize values are naturals; `f as usize` saturates at 0.                 *)
(* Vec<f64> is a sequence; the flat index k of the code is position k+1.   *)
(***************************************************************************)
EXTENDS Integers, Sequences, FiniteSets, TLC

\* ----------------------------------------------------------------- bounds
MaxNx == 4
MaxNy == 3
MaxSeeds == 1
MaxSteps == 2
SampleMaxNx == 3
SampleMaxNy == 2

\* -------------------------------------------------------------------- f64
\* 1.0
One == 32768

Half == One \div 2

\* (n as f64)
ToF(n) == n * One


\* a * b, rounded to nearest.  The operands are split so that no
\* intermediate product leaves the range of the checker's integers.
FMul(a, b) ==
    LET qa == a \div One
        ra == a % One
        qb == b \div One
        rb == b % One
    IN  qa * qb * One + qa * rb + ra * qb + ((ra * rb + Half) \div One)

\* a / b for 0 < b < 2^26, rounded to nearest: the integer part, then the
\* fraction by long division, five bits at a time.
FDiv(a, b) ==
    LET t1 == (a % b) * 32
        t2 == (t1 % b) * 32
        t3 == (t2 % b) * 32
    IN  (a \div b) * One + (t1 \div b) * 1024 + (t2 \div b) * 32 + (t3 \div b)
        + (IF 2 * (t3 % b) >= b THEN 1 ELSE 0)

\* f64::max, f64::min
FMax(a, b) == IF a >= b THEN a ELSE b
FMin(a, b) == IF a <= b THEN a ELSE b

\* f.floor() as usize: the cast saturates, a negative floor becomes 0.
FloorUsize(a) == IF a < 0 THEN 0 ELSE a \div One

\* usize::min
UMin(a, b) == IF a <= b THEN a ELSE b

\* ------------------------------------------------------------- FluidGrid
\* FluidGrid::new: the three fields zero-filled at their sizes.
new(nx, ny, dx) ==
    [nx |-> nx, ny |-> ny, dx |-> dx,
     p |-> [k \in 1..(nx * ny) |-> 0],
     u |-> [k \in 1..((nx + 1) * ny) |-> 0],
     v |-> [k \in 1..(nx * (ny + 1)) |-> 0]]

u_idx(g, i, j) == j * (g.nx + 1) + i
v_idx(g, i, j) == j * g.nx + i
p_idx(g, i, j) == j * g.nx + i

\* vec[k] in range.  An index outside the vector panics in the code; the
\* step and the sampler check InRange before any value read here is used.
InRange(vec, k) == k >= 0 /\ k < Len(vec)
Rd(vec, k) == IF InRange(vec, k) THEN vec[k + 1] ELSE 0

\* A fully evaluated copy of a sequence.
Vec(f) == f \o <<>>

\* ---------------------------------------------------------- get_velocity
\* The clamped sample position, in cells: <<x / dx, y / dx>>.
Clamp(a, hi) == FMin(FMax(a, 0), hi)
InCells(g, x, y) == <<x, y, FDiv(x, g.dx), FDiv(y, g.dx)>>
ClampedPos(g, x0, y0) ==
    InCells(g, Clamp(x0, FMul(ToF(g.nx), g.dx)), Clamp(y0, FMul(ToF(g.ny), g.dx)))

\* Upper clamps of the face indices read by the sampler.
UColClamp(g) == g.nx - 1
URowClampWide(g) == g.ny
URowClamp(g) == g.ny - 1
VColClamp(g) == g.nx - 1
VRowClamp(g) == g.ny - 1

\* The four horizontal-velocity neighbours and the weights, lines 56-65.
UStencilAt(g, c) ==
    LET u_i == FloorUsize(c[3])
        u_j == FloorUsize(c[4] - Half)
    IN  [i0 |-> UMin(u_i, UColClamp(g)), i1 |-> UMin(u_i + 1, UColClamp(g)),
         j0 |-> UMin(u_j, URowClamp(g)), j1 |-> UMin(u_j + 1, URowClamp(g)),
         tx |-> c[3] - ToF(u_i), ty |-> (c[4] - Half) - ToF(u_j)]

\* The four vertical-velocity neighbours and the weights, lines 75-84.
VStencilAt(g, c) ==
    LET v_i == FloorUsize(c[3] - Half)
        v_j == FloorUsize(c[4])
    IN  [i0 |-> UMin(v_i, VColClamp(g)), i1 |-> UMin(v_i + 1, VColClamp(g)),
         j0 |-> UMin(v_j, VRowClamp(g)), j1 |-> UMin(v_j + 1, VRowClamp(g)),
         tx |-> (c[3] - Half) - ToF(v_i), ty |-> c[4] - ToF(v_j)]


\* Flat indices into u (into v) that one sample reads.
UStencilIdx(g, st) ==
    {u_idx(g, st.i0, st.j0), u_idx(g, st.i1, st.j0),
     u_idx(g, st.i0, st.j1), u_idx(g, st.i1, st.j1)}
VStencilIdx(g, st) ==
    {v_idx(g, st.i0, st.j0), v_idx(g, st.i1, st.j0),
     v_idx(g, st.i0, st.j1), v_idx(g, st.i1, st.j1)}

\* Bilinear interpolation, lines 68-71 and 87-90.
Bilinear(c00, c10, c01, c11, tx, ty) ==
      FMul(FMul(c00, One - tx), One - ty)
    + FMul(FMul(c10, tx), One - ty)
    + FMul(FMul(c01, One - tx), ty)
    + FMul(FMul(c11, tx), ty)

\* The two interpolations, given the stencils.
Interpolate(g, su, sv) ==
    <<Bilinear(Rd(g.u, u_idx(g, su.i0, su.j0)), Rd(g.u, u_idx(g, su.i1, su.j0)),
               Rd(g.u, u_idx(g, su.i0, su.j1)), Rd(g.u, u_idx(g, su.i1, su.j1)),
               su.tx, su.ty),
      Bilinear(Rd(g.v, v_idx(g, sv.i0, sv.j0)), Rd(g.v, v_idx(g, sv.i1, sv.j0)),
               Rd(g.v, v_idx(g, sv.i0, sv.j1)), Rd(g.v, v_idx(g, sv.i1, sv.j1)),
               sv.tx, sv.ty)>>

VelocityAt(g, c) == Interpolate(g, UStencilAt(g, c), VStencilAt(g, c))

\* get_velocity(x, y) = <<u_interp, v_interp>>
get_velocity(g, x0, y0) == VelocityAt(g, ClampedPos(g, x0, y0))

\* ------------------------------------------------------------------ loops
\* vec[k] = val.  (An index outside the vector panics; see the index
\* checks below.)
Store(vec, k, val) == IF InRange(vec, k) THEN [vec EXCEPT ![k + 1] = val] ELSE vec

\* `for i in lo..hi { acc = Body(i, acc) }`: i runs from lo to hi - 1 in
\* increasing order.  The range is split in halves, first half first, which
\* keeps the evaluation shallow; comparing the lengths makes the checker
\* finish the first half before it starts the second (a Vec never changes
\* its length).
RECURSIVE For(_, _, _, _)
For(lo, hi, Body(_, _), acc) ==
    IF lo >= hi THEN acc
    ELSE IF hi = lo + 1 THEN Body(lo, acc)
    ELSE LET mid == (lo + hi) \div 2
             first == For(lo, mid, Body, acc)
         IN  IF Len(first) = Len(acc) THEN For(mid, hi, Body, first) ELSE first

\* ---------------------------------------------------------------- advect
UFacePos(g, i, j) == <<FMul(ToF(i), g.dx), FMul(ToF(j) + Half, g.dx)>>
VFacePos(g, i, j) == <<FMul(ToF(i) + Half, g.dx), FMul(ToF(j), g.dx)>>

\* The source position: x_prev = x - dt * u, y_prev = y - dt * v.
Back(pos, dt, vel) == <<pos[1] - FMul(dt, vel[1]), pos[2] - FMul(dt, vel[2])>>
SampleAt(g, pos) == get_velocity(g, pos[1], pos[2])
TraceBack(g, pos, dt) == Back(pos, dt, SampleAt(g, pos))

\* One horizontal face (i, j): sample at the face, trace back, sample
\* again and keep the u component, lines 108-119.
AdvectedU(g, i, j, dt) == SampleAt(g, TraceBack(g, UFacePos(g, i, j), dt))[1]

\* One vertical face (i, j), lines 128-139.
AdvectedV(g, i, j, dt) == SampleAt(g, TraceBack(g, VFacePos(g, i, j), dt))[2]

\* First column of `for i in 1..self.nx` (u) and first row of
\* `for j in 1..self.ny` (v).
\* `for i in 1..self.nx` with the exclusive end nx + 1 (`1..=self.nx`).
AdvectUColEndIncl(g) == g.nx + 1

\* The exclusive end of advect's loop over the columns of u, line 106.
AdvectUColEnd(g) == g.nx

\* advect: both sweeps read self.u and self.v, write the clones u_new and
\* v_new, and the clones replace the fields at the end, lines 101-146.
advect(g, dt) ==
    LET u_new == For(0, g.ny, LAMBDA j, rows :
                     For(1, AdvectUColEnd(g), LAMBDA i, acc :
                         Store(acc, u_idx(g, i, j), AdvectedU(g, i, j, dt)), rows),
                     g.u)
        v_new == For(1, g.ny, LAMBDA j, rows :
                     For(0, g.nx, LAMBDA i, acc :
                         Store(acc, v_idx(g, i, j), AdvectedV(g, i, j, dt)), rows),
                     g.v)
    IN  [g EXCEPT !.u = u_new, !.v = v_new]

\* -------------------------------------------------------- solve_pressure
rho == One
num_iterations == 50

\* The divergence of cell (i, j), lines 167-172.
CellDivergence(g, i, j) ==
    FDiv(Rd(g.u, u_idx(g, i + 1, j)) - Rd(g.u, u_idx(g, i, j))
         + Rd(g.v, v_idx(g, i, j + 1)) - Rd(g.v, v_idx(g, i, j)), g.dx)

\* Part 1: vec![0.0; nx * ny] filled cell by cell, lines 164-175.
Divergence(g) ==
    For(0, g.ny, LAMBDA j, rows :
        For(0, g.nx, LAMBDA i, acc :
            Store(acc, p_idx(g, i, j), CellDivergence(g, i, j)), rows),
        [k \in 1..(g.nx * g.ny) |-> 0])

\* A sweep that reads the vector it is writing (in-place relaxation).
JacobiSourceInPlace(self_p, p_new) == p_new

\* The vector a Jacobi sweep reads its four neighbours from: self.p.
JacobiSource(self_p, p_new) == self_p

\* The update with the source term dx * dx instead of divergence * dx * dx.
PUpdatedNoDiv(g, src, divergence, i, j) ==
    FDiv(Rd(src, p_idx(g, i + 1, j)) + Rd(src, p_idx(g, i - 1, j))
         + Rd(src, p_idx(g, i, j + 1)) + Rd(src, p_idx(g, i, j - 1))
         - FMul(g.dx, g.dx), ToF(4))

\* The discretized Poisson equation rearranged for p_i,j, lines 184-192.
PUpdated(g, src, divergence, i, j) ==
    FDiv(Rd(src, p_idx(g, i + 1, j)) + Rd(src, p_idx(g, i - 1, j))
         + Rd(src, p_idx(g, i, j + 1)) + Rd(src, p_idx(g, i, j - 1))
         - FMul(FMul(Rd(divergence, p_idx(g, i, j)), g.dx), g.dx), ToF(4))

\* `for i in 1..self.nx`: the sweep running into the last column.
JacobiColEndWide(g) == g.nx

\* One past the last interior pressure column: `for i in 1..self.nx - 1`.
JacobiColEnd(g) == g.nx - 1

\* One sweep, lines 182-195: every interior cell of p_new is written from
\* JacobiSource; p_new enters the sweep equal to self.p (the clone of line
\* 179, or of line 197 at the end of the sweep before).
JacobiSweep(g, self_p, divergence) ==
    For(1, g.ny - 1, LAMBDA j, rows :
        For(1, JacobiColEnd(g), LAMBDA i, p_new :
            Store(p_new, p_idx(g, i, j),
                  PUpdated(g, JacobiSource(self_p, p_new), divergence, i, j)), rows),
        self_p)

\* solve_pressure: num_iterations sweeps, each followed by
\* self.p = p_new.clone(), lines 181-198.
solve_pressure(g) ==
    LET divergence == Divergence(g)
    IN  [g EXCEPT !.p = For(0, num_iterations, LAMBDA n, self_p :
                                JacobiSweep(g, self_p, divergence), g.p)]

\* scale = dt * rho * dx
ProjectScaleTimes(g, dt) == FMul(dt, FMul(rho, g.dx))

\* --------------------------------------------------------------- project
\* scale = dt / (rho * dx), line 209
ProjectScale(g, dt) == FDiv(dt, FMul(rho, g.dx))

\* lines 213-237: both loops read self.p and update the faces in place.
project(g, dt) ==
    LET scale == ProjectScale(g, dt)
        u == For(1, g.ny - 1, LAMBDA j, rows :
                 For(1, g.nx, LAMBDA i, acc :
                     Store(acc, u_idx(g, i, j),
                           Rd(acc, u_idx(g, i, j))
                           - FMul(scale, Rd(g.p, p_idx(g, i, j)) - Rd(g.p, p_idx(g, i - 1, j)))),
                     rows),
                 g.u)
        v == For(1, g.ny, LAMBDA j, rows :
                 For(1, g.nx - 1, LAMBDA i, acc :
                     Store(acc, v_idx(g, i, j),
                           Rd(acc, v_idx(g, i, j))
                           - FMul(scale, Rd(g.p, p_idx(g, i, j)) - Rd(g.p, p_idx(g, i, j - 1)))),
                     rows),
                 g.v)
    IN  [g EXCEPT !.u = u, !.v = v]

\* The right wall taken to be column nx - 1.
RightWallColShort(g) == g.nx - 1

\* -------------------------------------------------------- set_boundaries
\* The face column of the right wall and the face row of the top wall.
RightWallCol(g) == g.nx
TopWallRow(g) == g.ny

\* lines 246-260
set_boundaries(g) ==
    LET u == For(0, g.ny, LAMBDA j, acc :
                 Store(Store(acc, u_idx(g, 0, j), 0), u_idx(g, RightWallCol(g), j), 0),
                 g.u)
        v == For(0, g.nx, LAMBDA i, acc :
                 Store(Store(acc, v_idx(g, i, 0), 0), v_idx(g, i, TopWallRow(g)), 0),
                 g.v)
    IN  [g EXCEPT !.u = u, !.v = v]

\* -------------------------------------------------------------- run_step
\* The grid after each phase of run_step(dt), lines 264-267.
AfterProject(r) == [projected |-> r, done |-> set_boundaries(r)]
AfterSolve(s, dt) == [solved |-> s] @@ AfterProject(project(s, dt))
AfterAdvect(a, dt) == [adv |-> a] @@ AfterSolve(solve_pressure(a), dt)
StepTrace(g, dt) == AfterAdvect(advect(g, dt), dt)

run_step(g, dt) == StepTrace(g, dt).done

\* ------------------------------------------------- index checks (panics)
\* Every `vec[k]` of the code is bounds-checked and every usize
\* subtraction is overflow-checked; the phase panics when one fails.
\* These are the indices each phase uses, over the loop ranges above.
StencilsInRange(g, c) ==
    /\ g.nx >= 1 /\ g.ny >= 1
    /\ \A k \in UStencilIdx(g, UStencilAt(g, c)) : InRange(g.u, k)
    /\ \A k \in VStencilIdx(g, VStencilAt(g, c)) : InRange(g.v, k)

SamplerInRange(g, x0, y0) == StencilsInRange(g, ClampedPos(g, x0, y0))
SamplerInRangeAt(g, pos) == SamplerInRange(g, pos[1], pos[2])

SampleTwiceInRange(g, pos, dt) ==
    /\ SamplerInRangeAt(g, pos)
    /\ SamplerInRangeAt(g, TraceBack(g, pos, dt))

AdvectInRange(g, dt) ==
    /\ \A j \in 0..(g.ny - 1) : \A i \in 1..(AdvectUColEnd(g) - 1) :
          InRange(g.u, u_idx(g, i, j)) /\ SampleTwiceInRange(g, UFacePos(g, i, j), dt)
    /\ \A j \in 1..(g.ny - 1) : \A i \in 0..(g.nx - 1) :
          InRange(g.v, v_idx(g, i, j)) /\ SampleTwiceInRange(g, VFacePos(g, i, j), dt)

SolveInRange(g) ==
    /\ \A j \in 0..(g.ny - 1) : \A i \in 0..(g.nx - 1) :
          /\ InRange(g.u, u_idx(g, i + 1, j)) /\ InRange(g.u, u_idx(g, i, j))
          /\ InRange(g.v, v_idx(g, i, j + 1)) /\ InRange(g.v, v_idx(g, i, j))
          /\ p_idx(g, i, j) < g.nx * g.ny
    /\ g.ny >= 1 /\ g.nx >= 1
    /\ \A j \in 1..(g.ny - 2) : \A i \in 1..(JacobiColEnd(g) - 1) :
          /\ InRange(g.p, p_idx(g, i + 1, j)) /\ InRange(g.p, p_idx(g, i - 1, j))
          /\ InRange(g.p, p_idx(g, i, j + 1)) /\ InRange(g.p, p_idx(g, i, j - 1))
          /\ InRange(g.p, p_idx(g, i, j))

ProjectInRange(g) ==
    /\ g.ny >= 1 /\ g.nx >= 1
    /\ \A j \in 1..(g.ny - 2) : \A i \in 1..(g.nx - 1) :
          /\ InRange(g.p, p_idx(g, i - 1, j)) /\ InRange(g.p, p_idx(g, i, j))
          /\ InRange(g.u, u_idx(g, i, j))
    /\ \A j \in 1..(g.ny - 1) : \A i \in 1..(g.nx - 2) :
          /\ InRange(g.p, p_idx(g, i, j - 1)) /\ InRange(g.p, p_idx(g, i, j))
          /\ InRange(g.v, v_idx(g, i, j))

BoundariesInRange(g) ==
    /\ \A j \in 0..(g.ny - 1) :
          InRange(g.u, u_idx(g, 0, j)) /\ InRange(g.u, u_idx(g, RightWallCol(g), j))
    /\ \A i \in 0..(g.nx - 1) :
          InRange(g.v, v_idx(g, i, 0)) /\ InRange(g.v, v_idx(g, i, TopWallRow(g)))

\* t is StepTrace(g, dt): each phase works on the grid the phase before
\* it left.
StepInRange(g, dt, t) ==
    /\ AdvectInRange(g, dt)
    /\ SolveInRange(t.adv)
    /\ ProjectInRange(t.solved)
    /\ BoundariesInRange(t.projected)

\* ---------------------------------------------------------- the program
VARIABLES
    grid,     \* the FluidGrid
    seeds,    \* how many faces have been seeded
    steps,    \* how many run_step calls have completed
    hist,     \* the last run_step: <<grid before, grid after advect, dt>>
    last,     \* the last get_velocity call: <<x, y, u_interp, v_interp>>
    status    \* "ok", or "panicked" once an index check has failed

vars == <<grid, seeds, steps, hist, last, status>>

\* Inputs.
DXs == {One}
DTs == {Half, One}
SeedValues == {One, -One}

\* Sample coordinates: every half cell from half a cell below the domain
\* to half a cell above it.
Coords(n, dx) == {FMul(k * Half, dx) : k \in (-1)..(2 * n + 1)}

Constructed(nx, ny, dx) ==
    /\ grid = new(nx, ny, dx)
    /\ seeds = 0 /\ steps = 0 /\ hist = <<>> /\ last = <<>> /\ status = "ok"

\* FluidGrid::new(nx, ny, dx) for any requested size.
Init == \E nx \in 0..MaxNx, ny \in 0..MaxNy, dx \in DXs : Constructed(nx, ny, dx)

\* grid.u[k] = val / grid.v[k] = val before the first step (main, line 304).
SeedU(k, val) ==
    /\ status = "ok" /\ steps = 0 /\ seeds < MaxSeeds
    /\ InRange(grid.u, k)
    /\ grid' = [grid EXCEPT !.u[k + 1] = val]
    /\ seeds' = seeds + 1 /\ last' = <<>>
    /\ UNCHANGED <<steps, hist, status>>

SeedV(k, val) ==
    /\ status = "ok" /\ steps = 0 /\ seeds < MaxSeeds
    /\ InRange(grid.v, k)
    /\ grid' = [grid EXCEPT !.v[k + 1] = val]
    /\ seeds' = seeds + 1 /\ last' = <<>>
    /\ UNCHANGED <<steps, hist, status>>

Stepped(dt, t) ==
    /\ IF StepInRange(grid, dt, t)
       THEN /\ grid' = t.done
            /\ hist' = <<grid, t.adv, dt>>
            /\ steps' = steps + 1
            /\ status' = status
       ELSE /\ status' = "panicked"
            /\ UNCHANGED <<grid, hist, steps>>
    /\ last' = <<>>
    /\ UNCHANGED seeds

\* grid.run_step(dt), between draws, on a grid that satisfies new's
\* precondition.
RunStep(dt, limit) ==
    /\ status = "ok" /\ steps < limit /\ last = <<>>
    /\ grid.nx >= 1 /\ grid.ny >= 1
    /\ Stepped(dt, StepTrace(grid, dt))

Sampled(x, y) ==
    /\ IF SamplerInRange(grid, x, y)
       THEN /\ last' = <<x, y>> \o get_velocity(grid, x, y)
            /\ status' = status
       ELSE /\ status' = "panicked"
            /\ last' = <<>>
    /\ UNCHANGED <<grid, seeds, steps, hist>>

\* grid.get_velocity(x, y)
Sample(x, y) ==
    /\ status = "ok"
    /\ grid.nx >= 1 /\ grid.ny >= 1
    /\ Sampled(x, y)

\* draw_velocities, lines 276-291: one get_velocity call at the centre of
\* each interior cell, rows outermost.  `last` holds the cell being drawn;
\* after the last cell the draw returns.
CellCentre(g, i, j) == <<FMul(ToF(i) + Half, g.dx), FMul(ToF(j) + Half, g.dx)>>
CellOf(g, x, y) == <<x \div g.dx, y \div g.dx>>
NextCell(g, c) == IF c[1] + 1 < g.nx - 1 THEN <<c[1] + 1, c[2]>> ELSE <<1, c[2] + 1>>

DrawAt(c) ==
    IF c[2] < grid.ny - 1
    THEN Sampled(CellCentre(grid, c[1], c[2])[1], CellCentre(grid, c[1], c[2])[2])
    ELSE last' = <<>> /\ UNCHANGED <<grid, seeds, steps, hist, status>>

Draw ==
    /\ status = "ok"
    /\ grid.nx >= 3 /\ grid.ny >= 3
    /\ DrawAt(IF last = <<>> THEN <<1, 1>>
              ELSE NextCell(grid, CellOf(grid, last[1], last[2])))

Next ==
    \/ \E k \in 0..((MaxNx + 1) * MaxNy - 1), val \in SeedValues : SeedU(k, val)
    \/ \E k \in 0..(MaxNx * (MaxNy + 1) - 1), val \in SeedValues : SeedV(k, val)
    \/ \E dt \in DTs : RunStep(dt, MaxSteps)

Spec == Init /\ [][Next]_vars

\* The sampler on seeded grids.
InitSample ==
    \E nx \in 0..SampleMaxNx, ny \in 0..SampleMaxNy, dx \in DXs : Constructed(nx, ny, dx)

NextSample ==
    \/ \E k \in 0..((MaxNx + 1) * MaxNy - 1), val \in SeedValues : SeedU(k, val)
    \/ \E k \in 0..(MaxNx * (MaxNy + 1) - 1), val \in SeedValues : SeedV(k, val)
    \/ \E x \in Coords(grid.nx, grid.dx), y \in Coords(grid.ny, grid.dx) : Sample(x, y)

SpecSample == InitSample /\ [][NextSample]_vars

\* main, lines 299-319: a 40 x 40 grid with dx = 15.0, the vertical face
\* (20, 20) set to 100.0, then run_step(0.016) on every update and
\* draw_velocities on every frame.
MainN == 40
MainDx == ToF(15)
MainSeed == ToF(100)
MainDt == ToF(16) \div 1000
MaxMainSteps == 1

mainGrid == [new(MainN, MainN, MainDx) EXCEPT
               !.v[MainN * (MainN \div 2) + (MainN \div 2) + 1] = MainSeed]

InitMain ==
    /\ grid = mainGrid
    /\ seeds = 1 /\ steps = 0 /\ hist = <<>> /\ last = <<>> /\ status = "ok"

NextMain ==
    \/ RunStep(MainDt, MaxMainSteps)
    \/ Draw

SpecMain == InitMain /\ [][NextMain]_vars

\* ================================================================ claims
Abs(a) == IF a < 0 THEN -a ELSE a
NonDegenerate == grid.nx >= 1 /\ grid.ny >= 1
StepDone == steps >= 1 /\ Len(hist) = 3

\* ---- C1 (Spec): after every completed run_step on a grid with nx >= 1
\* and ny >= 1, the horizontal velocity at face columns 0 and nx is 0 in
\* every row, and the vertical velocity at face rows 0 and ny is 0 in every
\* column.
C1_WallsZeroAfterStep ==
    (StepDone /\ NonDegenerate) =>
        /\ \A j \in 0..(grid.ny - 1) :
              /\ grid.u[j * (grid.nx + 1) + 1] = 0
              /\ grid.u[j * (grid.nx + 1) + grid.nx + 1] = 0
        /\ \A i \in 0..(grid.nx - 1) :
              /\ grid.v[i + 1] = 0
              /\ grid.v[grid.ny * grid.nx + i + 1] = 0

\* A step has run on a grid whose right wall carried a seeded value.
C1_Witness ==
    /\ StepDone /\ steps = 1
    /\ \E j \in 0..(grid.ny - 1) : hist[1].u[j * (grid.nx + 1) + grid.nx + 1] # 0

\* ---- C3 (Spec): a grid is only ever constructed with nx >= 1 and
\* ny >= 1; construction with a zero dimension never yields a grid.
C3_ZeroDimensionRejected == NonDegenerate

\* ---- C4 (Spec): on a grid with nx >= 1 and ny >= 1 no operation fails an
\* index check: the three fields keep the lengths nx*ny, (nx+1)*ny and
\* nx*(ny+1), the next run_step indexes only inside them for every dt, and
\* so does get_velocity at every position, inside or outside the domain.
C4_LengthsAndIndicesInRange ==
    /\ status = "ok"
    /\ NonDegenerate =>
        /\ Len(grid.p) = grid.nx * grid.ny
        /\ Len(grid.u) = (grid.nx + 1) * grid.ny
        /\ Len(grid.v) = grid.nx * (grid.ny + 1)
        /\ \A dt \in DTs : StepInRange(grid, dt, StepTrace(grid, dt))
        /\ \A x \in Coords(grid.nx, grid.dx), y \in Coords(grid.ny, grid.dx) :
              SamplerInRange(grid, x, y)

\* Two steps have run on the smallest grid, whose interior ranges are empty,
\* with a seeded face.
C4_Witness ==
    /\ grid.nx = 1 /\ grid.ny = 1 /\ steps = MaxSteps /\ seeds = 1 /\ status = "ok"

\* ---- C5 (Spec): on a grid with nx >= 1 and ny >= 1 whose fields are all
\* zero, run_step leaves every entry of the pressure and of both velocity
\* fields exactly 0.
C5_ZeroStaysZero ==
    (seeds = 0 /\ NonDegenerate) =>
        /\ \A k \in 1..Len(grid.p) : grid.p[k] = 0
        /\ \A k \in 1..Len(grid.u) : grid.u[k] = 0
        /\ \A k \in 1..Len(grid.v) : grid.v[k] = 0

\* Steps have run on a never-seeded grid that has interior cells.
C5_Witness ==
    /\ seeds = 0 /\ steps = MaxSteps /\ grid.nx >= 3 /\ grid.ny >= 3

\* ---- C8 (Spec): each relaxation sweep computes every interior cell from
\* the pressure as it was at the end of the sweep before (no partially
\* updated values), and solve_pressure is exactly 50 such sweeps: its
\* result equals a double-buffered Jacobi iteration of
\* (p_right + p_left + p_top + p_bot - div*dx*dx) / 4.
RefCell(g, p, div, k) ==
    IF /\ ((k - 1) % g.nx) \in 1..(g.nx - 2)
       /\ ((k - 1) \div g.nx) \in 1..(g.ny - 2)
    THEN FDiv(p[k + 1] + p[k - 1] + p[k + g.nx] + p[k - g.nx]
              - FMul(FMul(div[k], g.dx), g.dx), ToF(4))
    ELSE p[k]

RefSweep(g, p, div) == Vec([k \in 1..Len(p) |-> RefCell(g, p, div, k)])

RefSolve(g, div) == For(0, 50, LAMBDA n, p : RefSweep(g, p, div), g.p)

SweepMatches(g, div) == JacobiSweep(g, g.p, div) = RefSweep(g, g.p, div)

SolveMatches(g, after, div) ==
    /\ SweepMatches(g, div)
    /\ SweepMatches([g EXCEPT !.p = after], div)
    /\ after = RefSolve(g, div)

C8_SynchronousJacobi ==
    (StepDone /\ NonDegenerate) => SolveMatches(hist[2], grid.p, Divergence(hist[2]))

\* A solve has run where two adjacent interior cells both got a non-zero
\* pressure, starting from a non-zero pressure field.
C8_Witness ==
    /\ StepDone /\ steps = 2 /\ grid.nx = 4 /\ grid.ny = 3
    /\ hist[2].p[grid.nx + 2] # 0 /\ hist[2].p[grid.nx + 3] # 0
    /\ grid.p[grid.nx + 2] # 0 /\ grid.p[grid.nx + 3] # 0
    /\ grid.p # hist[2].p

\* ---- C9 as stated (Spec): advect leaves every face of the outermost
\* rows and columns of both velocity fields unchanged.
C9_OutermostFacesKept ==
    StepDone =>
        /\ \A j \in 0..(grid.ny - 1), i \in 0..grid.nx :
              (i \in {0, grid.nx} \/ j \in {0, grid.ny - 1}) =>
                  hist[2].u[j * (grid.nx + 1) + i + 1] = hist[1].u[j * (grid.nx + 1) + i + 1]
        /\ \A j \in 0..grid.ny, i \in 0..(grid.nx - 1) :
              (j \in {0, grid.ny} \/ i \in {0, grid.nx - 1}) =>
                  hist[2].v[j * grid.nx + i + 1] = hist[1].v[j * grid.nx + i + 1]

\* ---- C9 amended (Spec): advect never writes the wall faces: horizontal
\* velocity at face columns 0 and nx, vertical velocity at face rows 0 and
\* ny, hold after advect the values they held before it.
C9_WallFacesKept ==
    StepDone =>
        /\ \A j \in 0..(grid.ny - 1), i \in {0, grid.nx} :
              hist[2].u[j * (grid.nx + 1) + i + 1] = hist[1].u[j * (grid.nx + 1) + i + 1]
        /\ \A i \in 0..(grid.nx - 1), j \in {0, grid.ny} :
              hist[2].v[j * grid.nx + i + 1] = hist[1].v[j * grid.nx + i + 1]

\* advect has run on a grid with a non-zero value on its right wall and
\* kept it.
C9_Witness ==
    /\ StepDone
    /\ \E j \in 0..(grid.ny - 1) :
          /\ hist[1].u[j * (grid.nx + 1) + grid.nx + 1] # 0
          /\ hist[2].u[j * (grid.nx + 1) + grid.nx + 1] # 0

\* ---- C10 (Spec): the outermost ring of pressure cells is never written:
\* on a grid built by new it is 0 in every state, whatever the interior
\* cells have become.
C10_BorderPressureZero ==
    \A j \in 0..(grid.ny - 1), i \in 0..(grid.nx - 1) :
        (i \in {0, grid.nx - 1} \/ j \in {0, grid.ny - 1}) =>
            grid.p[j * grid.nx + i + 1] = 0

\* A solve has given two interior cells a non-zero pressure.
C10_Witness ==
    /\ StepDone /\ grid.nx = 4 /\ grid.ny = 3
    /\ grid.p[grid.nx + 2] # 0 /\ grid.p[grid.nx + 3] # 0

\* ---- C2 (SpecSample): get_velocity at the location of a horizontal face
\* (col in 0..nx, row in 0..ny-1) returns as u exactly the stored value of
\* that face, and at the location of a vertical face (col in 0..nx-1, row in
\* 0..ny) returns as v exactly the stored value of that face, the last face
\* column nx and the last face row ny included.
C2_ExactAtFaces ==
    Len(last) = 4 =>
        /\ \A col \in 0..grid.nx, row \in 0..(grid.ny - 1) :
              (/\ last[1] = FMul(ToF(col), grid.dx)
               /\ last[2] = FMul(ToF(row) + Half, grid.dx))
              => last[3] = grid.u[row * (grid.nx + 1) + col + 1]
        /\ \A col \in 0..(grid.nx - 1), row \in 0..grid.ny :
              (/\ last[1] = FMul(ToF(col) + Half, grid.dx)
               /\ last[2] = FMul(ToF(row), grid.dx))
              => last[4] = grid.v[row * grid.nx + col + 1]

\* ---- C7 (SpecSample): every component returned by get_velocity is a
\* blend of stored values with weights in [0, 1] that sum to 1, so it never
\* extrapolates: the u component lies between the smallest and the largest
\* stored u value, and the v component between the smallest and the
\* largest stored v value.
Within(val, vec) ==
    /\ \E k \in 1..Len(vec) : vec[k] <= val
    /\ \E k \in 1..Len(vec) : vec[k] >= val

C7_BlendNeverExtrapolates ==
    Len(last) = 4 => Within(last[3], grid.u) /\ Within(last[4], grid.v)

\* ---- C6 (SpecMain): on the 40 x 40 grid with dx = 15.0 and only the
\* vertical face (20, 20) set to 100.0, the first run_step(0.016) strictly
\* reduces the sum over interior cells of
\* |(u_right - u_left + v_top - v_bot) / dx|.
InteriorDivergence(g, i, j) ==
    FDiv(g.u[j * (g.nx + 1) + i + 2] - g.u[j * (g.nx + 1) + i + 1]
         + g.v[(j + 1) * g.nx + i + 1] - g.v[j * g.nx + i + 1], g.dx)

DivergenceSum(g) ==
    For(1, g.ny - 1, LAMBDA j, rows :
        For(1, g.nx - 1, LAMBDA i, acc :
            <<acc[1] + Abs(InteriorDivergence(g, i, j))>>, rows),
        <<0>>)[1]

FirstStepReducesDivergence ==
    (steps = 0 /\ steps' = 1) => DivergenceSum(grid') < DivergenceSum(grid)

C6_DivergenceReduced == [][FirstStepReducesDivergence]_vars

\* The first step has run on main's grid and has changed the seeded face.
C6_Witness ==
    /\ steps = 1 /\ status = "ok" /\ last = <<>>
    /\ grid.nx = 40 /\ grid.ny = 40 /\ grid.dx = ToF(15)
    /\ hist[1].v[821] = ToF(100) /\ hist[3] = 524
    /\ grid.v[821] \in 1..(ToF(100) - 1)

====
